---- MODULE Spec2Model ----
(***************************************************************************)
(* A model of fades' main module (src/fades/main.py): the ad-hoc argv      *)
(* parsing, the resolution of a virtualenv through the cache and the       *)
(* builder, and the supervision of the child process.                      *)
(*                                                                         *)
(* A Python string is a sequence of one-character strings, so that         *)
(* argv[0][0] and str.split() are computed and not assumed.  An optional   *)
(* value (None or a value) is the empty or the one-element sequence.       *)
(***************************************************************************)
EXTENDS Integers, Sequences, FiniteSets, TLC

VARIABLES
    sys_argv,        \* per process: the process-global sys.argv
    go_argv,         \* per process: the argv parameter go() was called with
    pc,              \* per process: the position of go() in its body
    fades_options,   \* per process: local of go()
    child_program,   \* per process: local of go()
    child_options,   \* per process: local of go()
    log_level,       \* per process: <<>> until the logger is set up, then <<level>>
    printed,         \* per process: what go() printed on stdout, in order
    requested_deps,  \* per process: <<>> or <<the Requirement Set parsed>>
    venv_data,       \* per process: <<>> (None) or <<the environment data>>
    installed,       \* per process: <<>> or <<the installed set create_venv returned>>
    child,           \* per process: "none", "running", "exited"
    child_cmd,       \* per process: the command line given to subprocess.Popen
    child_rc,        \* per process: the exit code of the child, once it has exited
    child_signals,   \* per process: <<>> or <<the last signal delivered to the child>>
    sup_signals,     \* per process: <<>> or <<the last signal delivered to the supervisor
                     \* while the child runs>>
    handlers,        \* per process: the signals whose disposition is _signal_handler
    rc,              \* per process: <<>> or <<what p.wait() returned>>
    status,          \* per process: <<>> or the terminal status of the invocation
    index,           \* the cache index (venvs.idx), shared by all the invocations
    created,         \* the number of environments create_venv has made
    runs,            \* the number of invocations started
    served,          \* the Requirement Sets for which a build and its store completed
    raced            \* an invocation did its lookup while another was between lookup and store

vars == <<sys_argv, go_argv, pc, fades_options, child_program, child_options, log_level,
          printed, requested_deps, venv_data, installed, child, child_cmd,
          child_rc, child_signals, sup_signals, handlers, rc, status,
          index, created, runs, served, raced>>

-----------------------------------------------------------------------------
(* Bounds *)

\* the number of arguments after the executable's name
MaxArgs == 3
\* the number of arguments after the executable's name in the argv parameter
\* of a call of go by another program
MaxGoArgs == 1
\* the number of invocations of go
MaxRuns == 2
\* the versions of a package are 1..MaxVersion
MaxVersion == 2

Procs == {"p1", "p2"}
Main == "p1"

ExitCodes == {0, 7}

-----------------------------------------------------------------------------
(* Strings *)

OptVersionShort == <<"-", "V">>
OptVersionLong == <<"-", "-", "v", "e", "r", "s", "i", "o", "n">>
OptHelpShort == <<"-", "h">>
OptHelpLong == <<"-", "-", "h", "e", "l", "p">>
OptVerboseShort == <<"-", "v">>
OptVerboseLong == <<"-", "-", "v", "e", "r", "b", "o", "s", "e">>
OptQuietShort == <<"-", "q">>
OptQuietLong == <<"-", "-", "q", "u", "i", "e", "t">>
OptInteractiveShort == <<"-", "i">>
OptInteractiveLong == <<"-", "-", "i", "n", "t", "e", "r", "a", "c", "t", "i", "v", "e">>

Whitespace == {" ", "\t", "\n"}

\* the strings a command line is made of: the empty string, options, a
\* shebang line's options in one string, and a script name
ArgStrings ==
    { <<>>,
      OptInteractiveShort,
      OptHelpShort,
      OptVersionShort,
      <<"-", "v", " ", "-", "q">>,
      <<"s">> }

RECURSIVE SeqsUpTo(_, _)
SeqsUpTo(S, n) ==
    IF n = 0 THEN { <<>> }
    ELSE LET shorter == SeqsUpTo(S, n - 1)
         IN  shorter \cup { Append(s, x) : s \in { t \in shorter : Len(t) = n - 1 }, x \in S }

FadesExe == <<"f">>

\* every argv: the executable's name, then at most MaxArgs strings
Argvs == { <<FadesExe>> \o t : t \in SeqsUpTo(ArgStrings, MaxArgs) }

\* the argv parameters such a program gives to go: the executable's name,
\* then at most MaxGoArgs strings
GoArgvs == { <<FadesExe>> \o t : t \in SeqsUpTo(ArgStrings, MaxGoArgs) }

\* the name of a program other than fades that calls go
HostExe == <<"t">>

\* the command lines of such a program
HostArgvs == { <<HostExe>>, <<HostExe, OptVersionShort>>, <<HostExe, <<"s">>>> }

\* the command line of the concurrent invocations: an interactive session
ConcArgvs == { <<FadesExe, OptInteractiveShort, <<"a">>>> }

Contains(seq, x) == \E i \in DOMAIN seq : seq[i] = x

\* str.split(): the maximal runs of non-whitespace characters, in order
RECURSIVE SplitFrom(_, _, _)
SplitFrom(s, word, out) ==
    IF s = <<>> THEN (IF word = <<>> THEN out ELSE Append(out, word))
    ELSE IF Head(s) \in Whitespace
         THEN SplitFrom(Tail(s), <<>>, IF word = <<>> THEN out ELSE Append(out, word))
         ELSE SplitFrom(Tail(s), Append(word, Head(s)), out)

split(s) == SplitFrom(s, <<>>, <<>>)

\* the while loop of _parse_argv and what follows it; argv[0][0] of an empty
\* string raises IndexError
RECURSIVE ParseLoop(_, _)
ParseLoop(argv, opts) ==
    IF argv = <<>>
    THEN [raised |-> FALSE, fades_options |-> opts, child_program |-> <<>>,
          child_options |-> <<>>]
    ELSE IF Head(argv) = <<>>
    THEN [raised |-> TRUE, fades_options |-> opts, child_program |-> <<>>,
          child_options |-> <<>>]
    ELSE IF Head(argv)[1] = "-"
    THEN ParseLoop(Tail(argv), opts \o split(Head(argv)))
    ELSE [raised |-> FALSE, fades_options |-> opts, child_program |-> Head(argv),
          child_options |-> Tail(argv)]

RECURSIVE SplitAll(_)
SplitAll(seq) == IF seq = <<>> THEN <<>> ELSE split(Head(seq)) \o SplitAll(Tail(seq))

\* _parse_argv, were the child program's arguments split like the options
ParseArgvSplittingChildOptions(argv) ==
    LET r == ParseLoop(IF argv = <<>> THEN <<>> ELSE Tail(argv), <<>>)
    IN  [r EXCEPT !.child_options = SplitAll(r.child_options)]

\* _parse_argv(argv): argv[1:] of an empty list is the empty list
_parse_argv(argv) == ParseLoop(IF argv = <<>> THEN <<>> ELSE Tail(argv), <<>>)

-----------------------------------------------------------------------------
(* Signals *)

REDIRECTED_SIGNALS == <<"SIGABRT", "SIGFPE", "SIGILL", "SIGINT", "SIGSEGV", "SIGTERM">>

Redirected == { REDIRECTED_SIGNALS[i] : i \in DOMAIN REDIRECTED_SIGNALS }

-----------------------------------------------------------------------------
(* Requirement Sets, the cache and the builder *)

Runtimes == {"py3.4", "py3.5"}

\* one requirement: a package name and a minimum version
Requirements == { [name |-> "a", min |-> v] : v \in 1..MaxVersion }

\* a Requirement Set: its requirements (unique by name) and the target runtime
ReqSets == { [runtime |-> r, reqs |-> {q}] : r \in Runtimes, q \in Requirements }

\* a package with its exact resolved version
Packages == { [name |-> "a", version |-> v] : v \in 1..MaxVersion }

\* every requirement is satisfied by a concrete installed version
Compatible(inst, reqs) ==
    \A q \in reqs : \E k \in inst : k.name = q.name /\ k.version >= q.min

\* does the record satisfy the Requirement Set: same runtime, compatible installed set
Matches(rec, rs) ==
    rec.metadata.runtime = rs.runtime /\ Compatible(rec.installed, rs.reqs)

\* VEnvsCache.get_venv: None or the environment data of the most recently
\* stored record that satisfies the Requirement Set
get_venv(idx, rs) ==
    LET hits == { i \in DOMAIN idx : Matches(idx[i], rs) }
    IN  IF hits = {} THEN <<>>
        ELSE <<idx[CHOOSE i \in hits : \A j \in hits : j <= i].metadata>>

\* VEnvsCache.store: one record appended
store(idx, inst, data) == Append(idx, [installed |-> inst, metadata |-> data])

\* envbuilder.create_venv: the (venv_data, installed) pairs a successful build
\* of the n-th environment may return; what is installed satisfies the request
create_venv(rs, n) ==
    { [venv_data |-> [env_bin_path |-> <<"venv", n, "bin">>, runtime |-> rs.runtime],
       installed |-> inst] :
      inst \in { s \in SUBSET Packages : Cardinality(s) = Cardinality(rs.reqs)
                                           /\ Compatible(s, rs.reqs) } }

\* os.path.join(venv_data['env_bin_path'], "python3")
python_exe(data) == Append(data.env_bin_path, "python3")

-----------------------------------------------------------------------------
(* The locals of go derived from the options *)

verbose(p) == Contains(fades_options[p], OptVerboseShort)
                \/ Contains(fades_options[p], OptVerboseLong)
quiet(p) == Contains(fades_options[p], OptQuietShort)
                \/ Contains(fades_options[p], OptQuietLong)
interactive(p) == Contains(fades_options[p], OptInteractiveShort)
                \/ Contains(fades_options[p], OptInteractiveLong)

Terminal == {"done", "exited", "raised", "killed"}

\* go is running: it has been called and has not finished
Active(p) == pc[p] \notin ({"idle"} \cup Terminal)

Upd(f, p, v) == [f EXCEPT ![p] = v]

\* go finishes at position to with terminal status st
Finish(p, to, st) ==
    /\ pc' = Upd(pc, p, to)
    /\ status' = Upd(status, p, st)

None == [p \in Procs |-> <<>>]

Init ==
    /\ sys_argv = None
    /\ go_argv = None
    /\ pc = [p \in Procs |-> "idle"]
    /\ fades_options = None
    /\ child_program = None
    /\ child_options = None
    /\ log_level = None
    /\ printed = None
    /\ requested_deps = None
    /\ venv_data = None
    /\ installed = None
    /\ child = [p \in Procs |-> "none"]
    /\ child_cmd = None
    /\ child_rc = None
    /\ child_signals = None
    /\ sup_signals = None
    /\ handlers = [p \in Procs |-> {}]
    /\ rc = None
    /\ status = None
    /\ index = <<>>
    /\ created = 0
    /\ runs = 0
    /\ served = {}
    /\ raced = FALSE

shared == <<index, created, served, raced>>
parsed == <<fades_options, child_program, child_options>>
resolved == <<requested_deps, venv_data, installed>>
childvars == <<child, child_cmd, child_rc, child_signals>>

\* line 94: go(version, a) is called in a process whose sys.argv is sysargv
go(p, sysargv, a) ==
    /\ pc[p] \in ({"idle"} \cup Terminal)
    /\ runs < MaxRuns
    /\ runs' = runs + 1
    /\ sys_argv' = Upd(sys_argv, p, sysargv)
    /\ go_argv' = Upd(go_argv, p, a)
    /\ pc' = Upd(pc, p, "parse")
    /\ fades_options' = Upd(fades_options, p, <<>>)
    /\ child_program' = Upd(child_program, p, <<>>)
    /\ child_options' = Upd(child_options, p, <<>>)
    /\ log_level' = Upd(log_level, p, <<>>)
    /\ printed' = Upd(printed, p, <<>>)
    /\ requested_deps' = Upd(requested_deps, p, <<>>)
    /\ venv_data' = Upd(venv_data, p, <<>>)
    /\ installed' = Upd(installed, p, <<>>)
    /\ child' = Upd(child, p, "none")
    /\ child_cmd' = Upd(child_cmd, p, <<>>)
    /\ child_rc' = Upd(child_rc, p, <<>>)
    /\ child_signals' = Upd(child_signals, p, <<>>)
    /\ sup_signals' = Upd(sup_signals, p, <<>>)
    /\ handlers' = Upd(handlers, p, {})
    /\ rc' = Upd(rc, p, <<>>)
    /\ status' = Upd(status, p, <<>>)
    /\ UNCHANGED shared

\* the process is started with the command line a and calls go with it
Start(p, a) == go(p, a, a)

\* line 96: the options, the program and its arguments are parsed from sys.argv
ParseArgv(p) ==
    /\ pc[p] = "parse"
    /\ LET r == _parse_argv(sys_argv[p])
       IN  IF r.raised
           THEN /\ Finish(p, "raised", <<"exception", "IndexError">>)
                /\ UNCHANGED parsed
           ELSE /\ fades_options' = Upd(fades_options, p, r.fades_options)
                /\ child_program' = Upd(child_program, p, r.child_program)
                /\ child_options' = Upd(child_options, p, r.child_options)
                /\ pc' = Upd(pc, p, "options")
                /\ UNCHANGED status
    /\ UNCHANGED <<sys_argv, go_argv, log_level, printed, resolved, childvars, sup_signals,
                   handlers, rc, shared, runs>>

\* the special options, were the child program not checked
OptionsWithoutMandatoryCheck(p) ==
    /\ pc[p] = "options"
    /\ IF Contains(fades_options[p], OptVersionShort)
            \/ Contains(fades_options[p], OptVersionLong)
       THEN /\ printed' = Upd(printed, p, <<"version">>)
            /\ Finish(p, "exited", <<"exit", 0>>)
       ELSE IF Contains(fades_options[p], OptHelpShort)
                \/ Contains(fades_options[p], OptHelpLong)
       THEN /\ printed' = Upd(printed, p, <<"usage">>)
            /\ Finish(p, "exited", <<"exit", 0>>)
       ELSE /\ pc' = Upd(pc, p, "logger")
            /\ UNCHANGED <<printed, status>>
    /\ UNCHANGED <<sys_argv, go_argv, parsed, log_level, resolved, childvars, sup_signals,
                   handlers, rc, shared, runs>>

\* the special options, were the help tested before the version
OptionsHelpFirst(p) ==
    /\ pc[p] = "options"
    /\ IF Contains(fades_options[p], OptHelpShort)
            \/ Contains(fades_options[p], OptHelpLong)
       THEN /\ printed' = Upd(printed, p, <<"usage">>)
            /\ Finish(p, "exited", <<"exit", 0>>)
       ELSE IF Contains(fades_options[p], OptVersionShort)
                \/ Contains(fades_options[p], OptVersionLong)
       THEN /\ printed' = Upd(printed, p, <<"version">>)
            /\ Finish(p, "exited", <<"exit", 0>>)
       ELSE IF child_program[p] = <<>>
       THEN /\ printed' = Upd(printed, p, <<"error", "usage">>)
            /\ Finish(p, "exited", <<"exit", 0>>)
       ELSE /\ pc' = Upd(pc, p, "logger")
            /\ UNCHANGED <<printed, status>>
    /\ UNCHANGED <<sys_argv, go_argv, parsed, log_level, resolved, childvars, sup_signals,
                   handlers, rc, shared, runs>>

\* lines 98-119: the special options and the mandatory child program
Options(p) ==
    /\ pc[p] = "options"
    /\ IF Contains(fades_options[p], OptVersionShort)
            \/ Contains(fades_options[p], OptVersionLong)
       THEN /\ printed' = Upd(printed, p, <<"version">>)
            /\ Finish(p, "exited", <<"exit", 0>>)
       ELSE IF Contains(fades_options[p], OptHelpShort)
                \/ Contains(fades_options[p], OptHelpLong)
       THEN /\ printed' = Upd(printed, p, <<"usage">>)
            /\ Finish(p, "exited", <<"exit", 0>>)
       ELSE IF child_program[p] = <<>>
       THEN /\ printed' = Upd(printed, p, <<"error", "usage">>)
            /\ Finish(p, "exited", <<"exit", 0>>)
       ELSE /\ pc' = Upd(pc, p, "logger")
            /\ UNCHANGED <<printed, status>>
    /\ UNCHANGED <<sys_argv, go_argv, parsed, log_level, resolved, childvars, sup_signals,
                   handlers, rc, shared, runs>>

\* lines 121-134: the log level and the logger
SetUpLogger(p) ==
    /\ pc[p] = "logger"
    /\ log_level' = Upd(log_level, p,
                        IF verbose(p) THEN <<"DEBUG">>
                        ELSE IF quiet(p) THEN <<"WARNING">>
                        ELSE <<"INFO">>)
    /\ pc' = Upd(pc, p, "deps")
    /\ UNCHANGED <<sys_argv, go_argv, parsed, printed, resolved, childvars, sup_signals,
                   handlers, rc, status, shared, runs>>

\* lines 137-140: the Requirement Set is parsed from the requirements string
\* or from the child program's file (deps: what the text may declare), or the
\* parsing raises
ParseDeps(p, deps) ==
    /\ pc[p] = "deps"
    /\ \/ \E rs \in deps :
            /\ requested_deps' = Upd(requested_deps, p, <<rs>>)
            /\ pc' = Upd(pc, p, "lookup")
            /\ UNCHANGED status
       \/ /\ Finish(p, "raised", <<"exception", "ParseError">>)
          /\ UNCHANGED requested_deps
    /\ UNCHANGED <<sys_argv, go_argv, parsed, log_level, printed, venv_data, installed,
                   childvars, sup_signals, handlers, rc, shared, runs>>

\* the lookup, were its result dropped: every invocation builds
LookupAlwaysMisses(p) ==
    /\ pc[p] = "lookup"
    /\ pc' = Upd(pc, p, "build")
    /\ raced' = (raced \/ \E q \in Procs \ {p} : pc[q] \in {"build", "store"})
    /\ UNCHANGED <<sys_argv, go_argv, parsed, log_level, printed, resolved,
                   childvars, sup_signals, handlers, rc, status, index, created,
                   served, runs>>

\* lines 143-145: the cache lookup
Lookup(p) ==
    /\ pc[p] = "lookup"
    /\ venv_data' = Upd(venv_data, p, get_venv(index, requested_deps[p][1]))
    /\ pc' = Upd(pc, p, IF venv_data'[p] = <<>> THEN "build" ELSE "launch")
    /\ raced' = (raced \/ \E q \in Procs \ {p} : pc[q] \in {"build", "store"})
    /\ UNCHANGED <<sys_argv, go_argv, parsed, log_level, printed, requested_deps, installed,
                   childvars, sup_signals, handlers, rc, status, index, created,
                   served, runs>>

\* the build, were the environment registered in the cache before the
\* installation has succeeded
BuildStoresBeforeSuccess(p) ==
    /\ pc[p] = "build"
    /\ \/ \E b \in create_venv(requested_deps[p][1], created + 1) :
            /\ venv_data' = Upd(venv_data, p, <<b.venv_data>>)
            /\ installed' = Upd(installed, p, <<b.installed>>)
            /\ created' = created + 1
            /\ pc' = Upd(pc, p, "store")
            /\ UNCHANGED <<status, index>>
       \/ /\ Finish(p, "raised", <<"exception", "BuildError">>)
          /\ index' = store(index, {},
                            [env_bin_path |-> <<"venv", created + 1, "bin">>,
                             runtime |-> requested_deps[p][1].runtime])
          /\ UNCHANGED <<venv_data, installed, created>>
    /\ UNCHANGED <<sys_argv, go_argv, parsed, log_level, printed, requested_deps,
                   childvars, sup_signals, handlers, rc, served, raced, runs>>

\* the build, were the environment always made for the first runtime
BuildIgnoresRuntime(p) ==
    /\ pc[p] = "build"
    /\ \/ \E b \in create_venv([requested_deps[p][1] EXCEPT !.runtime = "py3.4"],
                               created + 1) :
            /\ venv_data' = Upd(venv_data, p, <<b.venv_data>>)
            /\ installed' = Upd(installed, p, <<b.installed>>)
            /\ created' = created + 1
            /\ pc' = Upd(pc, p, "store")
            /\ UNCHANGED status
       \/ /\ Finish(p, "raised", <<"exception", "BuildError">>)
          /\ UNCHANGED <<venv_data, installed, created>>
    /\ UNCHANGED <<sys_argv, go_argv, parsed, log_level, printed, requested_deps,
                   childvars, sup_signals, handlers, rc, index, served, raced, runs>>

\* line 146: the build, which returns the environment data and the installed
\* set or raises
Build(p) ==
    /\ pc[p] = "build"
    /\ \/ \E b \in create_venv(requested_deps[p][1], created + 1) :
            /\ venv_data' = Upd(venv_data, p, <<b.venv_data>>)
            /\ installed' = Upd(installed, p, <<b.installed>>)
            /\ created' = created + 1
            /\ pc' = Upd(pc, p, "store")
            /\ UNCHANGED status
       \/ /\ Finish(p, "raised", <<"exception", "BuildError">>)
          /\ UNCHANGED <<venv_data, installed, created>>
    /\ UNCHANGED <<sys_argv, go_argv, parsed, log_level, printed, requested_deps,
                   childvars, sup_signals, handlers, rc, index, served, raced, runs>>

\* the step after the build, were store not called
StoreSkipped(p) ==
    /\ pc[p] = "store"
    /\ served' = served \cup {requested_deps[p][1]}
    /\ pc' = Upd(pc, p, "launch")
    /\ UNCHANGED <<sys_argv, go_argv, parsed, log_level, printed, resolved, childvars,
                   sup_signals, handlers, rc, status, index, created, raced, runs>>

\* the step after the build, were store called a second time
StoreTwice(p) ==
    /\ pc[p] = "store"
    /\ index' = store(store(index, installed[p][1], venv_data[p][1]),
                      installed[p][1], venv_data[p][1])
    /\ served' = served \cup {requested_deps[p][1]}
    /\ pc' = Upd(pc, p, "launch")
    /\ UNCHANGED <<sys_argv, go_argv, parsed, log_level, printed, resolved, childvars,
                   sup_signals, handlers, rc, status, created, raced, runs>>

\* line 148: the new environment is stored in the cache
Store(p) ==
    /\ pc[p] = "store"
    /\ index' = store(index, installed[p][1], venv_data[p][1])
    /\ served' = served \cup {requested_deps[p][1]}
    /\ pc' = Upd(pc, p, "launch")
    /\ UNCHANGED <<sys_argv, go_argv, parsed, log_level, printed, resolved, childvars,
                   sup_signals, handlers, rc, status, created, raced, runs>>

\* the launch, were the signal handlers installed before subprocess.Popen
LaunchAfterHandlers(p) ==
    /\ pc[p] = "launch"
    /\ handlers' = Upd(handlers, p, IF interactive(p) THEN {} ELSE Redirected)
    /\ \/ /\ child' = Upd(child, p, "running")
          /\ child_cmd' = Upd(child_cmd, p,
                IF interactive(p)
                THEN <<python_exe(venv_data[p][1])>>
                ELSE <<python_exe(venv_data[p][1]), child_program[p]>> \o child_options[p])
          /\ pc' = Upd(pc, p, "wait")
          /\ UNCHANGED status
       \/ /\ Finish(p, "raised", <<"exception", "OSError">>)
          /\ UNCHANGED <<child, child_cmd>>
    /\ UNCHANGED <<sys_argv, go_argv, parsed, log_level, printed, resolved, child_rc,
                   child_signals, sup_signals, rc, shared, runs>>

\* the launch, were the signal redirection outside the else branch
LaunchRedirectsAlways(p) ==
    /\ pc[p] = "launch"
    /\ \/ /\ child' = Upd(child, p, "running")
          /\ child_cmd' = Upd(child_cmd, p,
                IF interactive(p)
                THEN <<python_exe(venv_data[p][1])>>
                ELSE <<python_exe(venv_data[p][1]), child_program[p]>> \o child_options[p])
          /\ pc' = Upd(pc, p, "handlers")
          /\ UNCHANGED status
       \/ /\ Finish(p, "raised", <<"exception", "OSError">>)
          /\ UNCHANGED <<child, child_cmd>>
    /\ UNCHANGED <<sys_argv, go_argv, parsed, log_level, printed, resolved, child_rc,
                   child_signals, sup_signals, handlers, rc, shared, runs>>

\* lines 151-159: the child is launched with the environment's interpreter,
\* or subprocess.Popen raises
Launch(p) ==
    /\ pc[p] = "launch"
    /\ \/ /\ child' = Upd(child, p, "running")
          /\ child_cmd' = Upd(child_cmd, p,
                IF interactive(p)
                THEN <<python_exe(venv_data[p][1])>>
                ELSE <<python_exe(venv_data[p][1]), child_program[p]>> \o child_options[p])
          /\ pc' = Upd(pc, p, IF interactive(p) THEN "wait" ELSE "handlers")
          /\ UNCHANGED status
       \/ /\ Finish(p, "raised", <<"exception", "OSError">>)
          /\ UNCHANGED <<child, child_cmd>>
    /\ UNCHANGED <<sys_argv, go_argv, parsed, log_level, printed, resolved, child_rc,
                   child_signals, sup_signals, handlers, rc, shared, runs>>

\* lines 167-168: one iteration of the loop over REDIRECTED_SIGNALS
InstallHandler(p) ==
    /\ pc[p] = "handlers"
    /\ LET i == Cardinality(handlers[p]) + 1
       IN  /\ handlers' = Upd(handlers, p, handlers[p] \cup {REDIRECTED_SIGNALS[i]})
           /\ pc' = Upd(pc, p, IF i = Len(REDIRECTED_SIGNALS) THEN "wait" ELSE "handlers")
    /\ UNCHANGED <<sys_argv, go_argv, parsed, log_level, printed, resolved, childvars,
                   sup_signals, rc, status, shared, runs>>

\* lines 171-173: p.wait() returns the child's exit code; go returns None
Wait(p) ==
    /\ pc[p] = "wait"
    /\ child[p] = "exited"
    /\ rc' = Upd(rc, p, child_rc[p])
    /\ Finish(p, "done", <<"exit", 0>>)
    /\ UNCHANGED <<sys_argv, go_argv, parsed, log_level, printed, resolved, childvars,
                   sup_signals, handlers, shared, runs>>

\* the child program ends with the exit code c
ChildExit(p, c) ==
    /\ child[p] = "running"
    /\ child' = Upd(child, p, "exited")
    /\ child_rc' = Upd(child_rc, p, <<c>>)
    /\ UNCHANGED <<sys_argv, go_argv, pc, parsed, log_level, printed, resolved, child_cmd,
                   child_signals, sup_signals, handlers, rc, status, shared, runs>>

\* lines 161-164: the signal s reaches the supervisor, _signal_handler is its
\* disposition and sends it to the child
SignalRedirected(p, s) ==
    /\ Active(p)
    /\ s \in handlers[p]
    /\ child[p] = "running"
    /\ sup_signals' = Upd(sup_signals, p, <<s>>)
    /\ child_signals' = Upd(child_signals, p, <<s>>)
    /\ UNCHANGED <<sys_argv, go_argv, pc, parsed, log_level, printed, resolved, child,
                   child_cmd, child_rc, handlers, rc, status, shared, runs>>

\* the signal s reaches the supervisor while its disposition is still the
\* default one: KeyboardInterrupt is raised for SIGINT, the process is ended
\* by any other signal
SignalDefault(p, s) ==
    /\ Active(p)
    /\ s \notin handlers[p]
    /\ sup_signals' = Upd(sup_signals, p,
                          IF child[p] = "running" THEN <<s>> ELSE sup_signals[p])
    /\ IF s = "SIGINT"
       THEN Finish(p, "raised", <<"exception", "KeyboardInterrupt">>)
       ELSE Finish(p, "killed", <<"signal", s>>)
    /\ UNCHANGED <<sys_argv, go_argv, parsed, log_level, printed, resolved, childvars,
                   handlers, rc, shared, runs>>

\* the Requirement Sets of the scripts of the supervision runs
ScriptReqSets == { rs \in ReqSets : rs.runtime = "py3.4" /\ rs.reqs = {[name |-> "a", min |-> 1]} }

\* one invocation of go, by the fades executable or by another program, with
\* any command line and any signal
Next ==
    \/ runs = 0 /\ \E a \in Argvs : Start(Main, a)
    \/ runs = 0 /\ \E h \in HostArgvs, a \in GoArgvs : go(Main, h, a)
    \/ ParseArgv(Main)
    \/ Options(Main)
    \/ SetUpLogger(Main)
    \/ ParseDeps(Main, ScriptReqSets)
    \/ Lookup(Main)
    \/ Build(Main)
    \/ Store(Main)
    \/ Launch(Main)
    \/ InstallHandler(Main)
    \/ Wait(Main)
    \/ \E c \in ExitCodes : ChildExit(Main, c)
    \/ \E s \in Redirected : SignalRedirected(Main, s)
    \/ \E s \in Redirected : SignalDefault(Main, s)

Spec == Init /\ [][Next]_vars

\* the interrupts of the concurrent invocations
ConcSignals == {"SIGINT"}

\* the exit codes of their children
ConcExitCodes == {0}

\* invocations of interactive sessions, one after another or concurrent, on
\* one cache index, with any Requirement Set
NextConc ==
    \/ \E p \in Procs, a \in ConcArgvs : Start(p, a)
    \/ \E p \in Procs :
        \/ ParseArgv(p)
        \/ Options(p)
        \/ SetUpLogger(p)
        \/ ParseDeps(p, ReqSets)
        \/ Lookup(p)
        \/ Build(p)
        \/ Store(p)
        \/ Launch(p)
        \/ Wait(p)
        \/ \E c \in ConcExitCodes : ChildExit(p, c)
        \/ \E s \in ConcSignals : SignalDefault(p, s)

SpecConc == Init /\ [][NextConc]_vars

-----------------------------------------------------------------------------
(* The properties *)

StartsWithDash(s) == s # <<>> /\ s[1] = "-"

\* the supervisor ended because a signal reached it
EndedBySignal(p) ==
    pc[p] \in Terminal
        /\ (status[p][1] = "signal" \/ status[p] = <<"exception", "KeyboardInterrupt">>)

\* C1: once the child has exited with the code c and go has finished, the
\* terminal status of the invocation is exactly c.
C1_ExitCodeFidelity ==
    \A p \in Procs : pc[p] = "done" => status[p] = <<"exit", rc[p][1]>>

\* C2: in script mode, every redirected signal that reaches the supervisor
\* while the child runs has been delivered to the child, and the supervisor
\* has not ended because of it.
C2_SignalRelay ==
    \A p \in Procs :
        (child[p] # "none" /\ ~interactive(p)) =>
            /\ sup_signals[p] = child_signals[p]
            /\ (sup_signals[p] # <<>> => ~EndedBySignal(p))

\* C3: once an invocation with the Requirement Set R has built and stored,
\* the lookup of an invocation with R returns a record and the builder is
\* not invoked.
C3_ExactMatchReuse ==
    [][\A p \in Procs :
          (pc[p] = "lookup" /\ pc'[p] # pc[p] /\ requested_deps[p][1] \in served) =>
              /\ pc'[p] # "build"
              /\ (pc'[p] = "launch" => venv_data'[p] # <<>>)
              /\ created' = created]_vars

\* a later invocation with a Requirement Set already served got its
\* environment from the cache, without a build
C3_Witness ==
    \E p \in Procs :
        /\ pc[p] = "launch"
        /\ installed[p] = <<>>
        /\ venv_data[p] # <<>>
        /\ requested_deps[p][1] \in served
        /\ ~raced

\* C4: as long as the build of an invocation has not returned successfully
\* (the invocation holds no environment), no step of it changes the cache
\* index or launches a child, whether the step is a failure of the build or
\* an interrupt.
C4_AtomicStore ==
    [][\A p \in Procs :
          (pc'[p] # pc[p] /\ venv_data[p] = <<>>) =>
              /\ index' = index
              /\ child'[p] = "none"
              /\ pc'[p] \notin {"launch", "handlers", "wait", "done"}
                    \/ venv_data'[p] # <<>>]_vars

\* a build failed while the index held a record stored by an earlier
\* invocation
C4_Witness ==
    /\ index # <<>>
    /\ \E p \in Procs :
        status[p] = <<"exception", "BuildError">> /\ venv_data[p] = <<>>

\* C5: in script mode the child's command line is the interpreter of the
\* environment, the first argument that does not start with "-", and every
\* argument after it, unmodified and in order.
C5_ArgumentPassThrough ==
    \A p \in Procs :
        (child[p] # "none" /\ ~interactive(p)) =>
            \E k \in 2..Len(sys_argv[p]) :
                /\ \A i \in 2..(k - 1) : StartsWithDash(sys_argv[p][i])
                /\ ~StartsWithDash(sys_argv[p][k])
                /\ child_cmd[p] = <<python_exe(venv_data[p][1]), sys_argv[p][k]>>
                                    \o SubSeq(sys_argv[p], k + 1, Len(sys_argv[p]))

\* a script launched after fades options, with an argument of its own that
\* starts with "-" and holds a space
C5_Witness ==
    \E p \in Procs :
        /\ child[p] = "running"
        /\ ~interactive(p)
        /\ fades_options[p] # <<>>
        /\ \E i \in DOMAIN child_options[p] :
              child_options[p][i] = <<"-", "v", " ", "-", "q">>

NoDuplicateRecords ==
    \A i, j \in DOMAIN index :
        (i # j) => ~(/\ index[i].installed = index[j].installed
                     /\ index[i].metadata.runtime = index[j].metadata.runtime)

\* C6 as stated: in every interleaving of concurrent invocations the index
\* never holds two records for the same install-set on the same runtime.
C6_DedupUnderConcurrency == NoDuplicateRecords

\* C6 as amended: as long as no invocation did its lookup while another was
\* between its lookup and its store, the index never holds two records for
\* the same install-set on the same runtime.
C6_DedupSequential == ~raced => NoDuplicateRecords

\* two invocations, one after the other, have each built and stored
C6_Witness == ~raced /\ Len(index) >= 2

\* C7: once the child has been launched, the supervisor never finishes while
\* the child is still running.
C7_Lifecycle ==
    \A p \in Procs : pc[p] \in Terminal => child[p] # "running"

\* C8: when subprocess.Popen raises, no handler of a redirected signal has
\* been installed, the invocation ends with the exception and p.wait() is
\* never reached.
C8_LaunchFailure ==
    \A p \in Procs :
        status[p] = <<"exception", "OSError">> =>
            /\ pc[p] = "raised"
            /\ handlers[p] = {}
            /\ child[p] = "none"
            /\ rc[p] = <<>>

\* the launch of a script failed
C8_Witness ==
    \E p \in Procs :
        /\ status[p] = <<"exception", "OSError">>
        /\ ~interactive(p)
        /\ venv_data[p] # <<>>

\* C9: in interactive mode the child's command line is the interpreter of
\* the environment alone and no handler of a redirected signal is ever
\* installed.
C9_Interactive ==
    \A p \in Procs :
        interactive(p) =>
            /\ handlers[p] = {}
            /\ pc[p] # "handlers"
            /\ child[p] # "none" => child_cmd[p] = <<python_exe(venv_data[p][1])>>

\* an interactive session was launched and has ended
C9_Witness ==
    \E p \in Procs :
        /\ interactive(p)
        /\ pc[p] = "done"
        /\ child_program[p] # <<>>

\* C10: the environment an invocation resolves to, from the lookup or from
\* the build, is one of the runtime of its Requirement Set, and so is every
\* record stored for it.
C10_RuntimeIsolation ==
    \A p \in Procs :
        venv_data[p] # <<>> =>
            venv_data[p][1].runtime = requested_deps[p][1].runtime

\* an invocation built its own environment although the index held, before
\* its lookup, a record of the other runtime whose installed set satisfies
\* its requirements
C10_Witness ==
    \E p \in Procs :
        /\ ~raced
        /\ pc[p] = "launch"
        /\ installed[p] # <<>>
        /\ \E i \in DOMAIN index :
              /\ index[i].metadata.runtime # requested_deps[p][1].runtime
              /\ Compatible(index[i].installed, requested_deps[p][1].reqs)

\* go has not gone past the validation of its input: no logger, no
\* dependency parsing, no lookup, build or store, no child
StoppedAtValidation(p) ==
    /\ pc[p] \in {"parse", "options", "exited", "raised", "killed"}
    /\ log_level[p] = <<>>
    /\ requested_deps[p] = <<>>
    /\ venv_data[p] = <<>>
    /\ installed[p] = <<>>
    /\ child[p] = "none"
    /\ index = <<>>
    /\ created = 0

\* every argument after the executable's name starts with "-"
OnlyOptions(argv) == \A i \in 2..Len(argv) : StartsWithDash(argv[i])

HelpAsked(opts) == Contains(opts, OptHelpShort) \/ Contains(opts, OptHelpLong)
VersionAsked(opts) == Contains(opts, OptVersionShort) \/ Contains(opts, OptVersionLong)

\* C11 as stated: when no argument of the command line is other than a fades
\* option, go prints the error and the usage and ends before the logger is
\* set up and before any parsing of dependencies, lookup, build, store or
\* launch.
C11_MandatoryChildProgram ==
    \A p \in Procs :
        (pc[p] # "idle" /\ OnlyOptions(sys_argv[p])) =>
            /\ StoppedAtValidation(p)
            /\ pc[p] = "exited" => printed[p] = <<"error", "usage">>

\* C11 as amended: the same, when neither the help nor the version is among
\* the options.
C11_MandatoryUnlessHelpOrVersion ==
    \A p \in Procs :
        (/\ pc[p] # "idle"
         /\ OnlyOptions(sys_argv[p])
         /\ ~HelpAsked(fades_options[p])
         /\ ~VersionAsked(fades_options[p])) =>
            /\ StoppedAtValidation(p)
            /\ pc[p] = "exited" => printed[p] = <<"error", "usage">>

\* an interactive invocation without a requirements string has ended with
\* the error and the usage
C11_Witness ==
    \E p \in Procs :
        /\ pc[p] = "exited"
        /\ interactive(p)
        /\ OnlyOptions(sys_argv[p])
        /\ printed[p] = <<"error", "usage">>

\* C12: when the help or the version is among the fades options, go prints
\* the version, or else the usage, and ends without any parsing of
\* dependencies, lookup, build, store or launch, whatever the other options
\* and the child program are.
C12_HelpAndVersionQuit ==
    \A p \in Procs :
        (HelpAsked(fades_options[p]) \/ VersionAsked(fades_options[p])) =>
            /\ StoppedAtValidation(p)
            /\ pc[p] = "exited" =>
                  printed[p] = IF VersionAsked(fades_options[p])
                               THEN <<"version">> ELSE <<"usage">>

\* help and version were both asked, with a child program, and only the
\* version was printed
C12_Witness ==
    \E p \in Procs :
        /\ pc[p] = "exited"
        /\ HelpAsked(fades_options[p])
        /\ VersionAsked(fades_options[p])
        /\ child_program[p] # <<>>
        /\ printed[p] = <<"version">>

\* the records of the index that describe the environment of invocation p
RecordsOf(p) == { i \in DOMAIN index : index[i].metadata = venv_data[p][1] }

\* where the resolution of invocation p stands: the builder is entered with
\* no environment, store with what the build returned and not yet stored,
\* and the launch with an environment whose record is in the index once
SequencedState(p) ==
    /\ pc[p] = "build" => (venv_data[p] = <<>> /\ installed[p] = <<>>)
    /\ pc[p] = "store" => (venv_data[p] # <<>> /\ installed[p] # <<>> /\ RecordsOf(p) = {})
    /\ (pc[p] \in {"launch", "handlers", "wait", "done"} \/ child[p] # "none") =>
          /\ venv_data[p] # <<>>
          /\ Cardinality(RecordsOf(p)) = 1
          /\ installed[p] # <<>> =>
                \A i \in RecordsOf(p) : index[i].installed = installed[p][1]
    /\ child[p] # "none" => child_cmd[p][1] = python_exe(venv_data[p][1])

\* the steps of the resolution of invocation p: one lookup, then a build if
\* and only if it returned nothing, then store, then the launch
SequencedStep(p) ==
    /\ pc'[p] = "lookup" => pc[p] \in {"deps", "lookup"}
    /\ pc'[p] = "build" => pc[p] \in {"lookup", "build"}
    /\ pc'[p] = "store" => pc[p] \in {"build", "store"}
    /\ pc'[p] = "launch" => pc[p] \in {"lookup", "store", "launch"}
    /\ (pc[p] = "lookup" /\ pc'[p] \in {"build", "launch"}) =>
          /\ venv_data'[p] = get_venv(index, requested_deps[p][1])
          /\ pc'[p] = "build" <=> get_venv(index, requested_deps[p][1]) = <<>>
    /\ (pc[p] = "build" /\ pc'[p] = "store") => created' = created + 1
    /\ (pc[p] # "build" /\ pc'[p] # pc[p]) => created' = created

\* the index changes only by the store of what a build returned
StoredByBuild ==
    index' # index =>
        \E p \in Procs :
            /\ pc[p] = "store"
            /\ pc'[p] = "launch"
            /\ index' = Append(index, [installed |-> installed[p][1],
                                       metadata |-> venv_data[p][1]])

\* C13: in one invocation the lookup happens once and before any build, the
\* builder is invoked at most once and exactly when the lookup returned no
\* record, store is invoked once with what this build returned and never on
\* a hit, and the child is launched afterwards from the environment that
\* the lookup or the build returned.
C13_ResolutionSequencing ==
    /\ [](\A p \in Procs : SequencedState(p))
    /\ [][StoredByBuild /\ \A p \in Procs : SequencedStep(p)]_vars

\* an invocation has built, stored and launched, and another has been
\* served by the lookup with the environment of the first
C13_Witness ==
    \E p, q \in Procs :
        /\ p # q
        /\ pc[p] = "done"
        /\ installed[p] # <<>>
        /\ pc[q] = "wait"
        /\ installed[q] = <<>>
        /\ venv_data[q] = venv_data[p]

\* the place in argv of the first argument after the executable's name that
\* does not start with "-"; Len(argv) + 1 when there is none
FirstNonOption(argv) ==
    CHOOSE k \in 2..(Len(argv) + 1) :
        /\ \A i \in 2..(k - 1) : StartsWithDash(argv[i])
        /\ k <= Len(argv) => ~StartsWithDash(argv[k])

\* what go holds after _parse_argv is the partition of its command line:
\* the split tokens of the leading options, the first other argument, the
\* arguments after it as they are
IsPartition(p) ==
    LET a == sys_argv[p]
        k == FirstNonOption(a)
    IN  /\ fades_options[p] = SplitAll(SubSeq(a, 2, k - 1))
        /\ child_program[p] = IF k <= Len(a) THEN a[k] ELSE <<>>
        /\ child_options[p] = SubSeq(a, k + 1, Len(a))

\* C14: for every argv, _parse_argv returns, without raising, the split
\* tokens of the leading run of arguments that start with "-", the first
\* argument after that run (the empty string when there is none) and the
\* arguments after it, in order and unsplit.
C14_ParseArgvPartition ==
    [][\A p \in Procs :
          (pc[p] = "parse" /\ pc'[p] # "parse" /\ ~EndedBySignal(p)') =>
              /\ pc'[p] = "options"
              /\ IsPartition(p)']_vars

\* C14 without "without raising": whenever _parse_argv returns, what it
\* returns is that partition.
ParseArgvPartitionWhenReturned ==
    [][\A p \in Procs :
          (pc[p] = "parse" /\ pc'[p] = "options") => IsPartition(p)']_vars

\* C15: go acts on the argv it is given: when the parsing step of an
\* invocation ends, its outcome is that of _parse_argv on the argv parameter
\* of go, whatever sys.argv holds: the same raise, or the same fades options,
\* child program and child arguments.
C15_GoActsOnItsArgv ==
    [][\A p \in Procs :
          (pc[p] = "parse" /\ pc'[p] # "parse" /\ ~EndedBySignal(p)') =>
              LET r == _parse_argv(go_argv[p])
              IN  IF r.raised
                  THEN pc'[p] = "raised"
                  ELSE /\ pc'[p] = "options"
                       /\ fades_options'[p] = r.fades_options
                       /\ child_program'[p] = r.child_program
                       /\ child_options'[p] = r.child_options]_vars

=============================================================================
